---- MODULE Spec2Model ----
(***************************************************************************)
(* The mytoken ledger (src/mytoken.hpp): the "stat" table of currency_stats *)
(* rows, the "accounts" table of account rows, the two balance primitives   *)
(* sub_balance / add_balance, and the six actions create, issue, burn,      *)
(* transfer, open and close.  The header declares the six actions; their    *)
(* bodies are not part of the sources at hand and follow the ledger's       *)
(* specification (sections 4.1 - 4.3 and 7).                                *)
(*                                                                          *)
(* Each operator below returns the outcome of one call and the tables as    *)
(* the call left them when it ended: a failed check() ends the call with an *)
(* error at that point.  Commit then does what the host does with an        *)
(* aborted action: it discards every write the action made.                 *)
(***************************************************************************)
EXTENDS Integers, FiniteSets, Sequences, TLC

\* asset::max_amount, 2^62 - 1 in the program, scaled down.
max_amount == 2

\* The longest memo the actions accept, in bytes.
MaxMemoLen == 256

Names == {"alice", "bob"}

Codes == {"TKN"}

Precisions == {0, 2}

Symbols == [code : Codes, precision : Precisions]

\* Amounts an action may be called with: negative, zero, and up to one past
\* the ceiling.
Units == (-1) .. (max_amount + 1)

\* A memo is modelled by its length: the longest accepted one and one longer.
MemoLens == {MaxMemoLen, MaxMemoLen + 1}

asset(amount, sym) == [amount |-> amount, symbol |-> sym]

Quantities == [amount : Units, symbol : Symbols]

VARIABLES stats, accounts, last

vars == <<stats, accounts, last>>

----------------------------------------------------------------------------
\* The tables.  A row carries the scope it is stored under; an account row
\* also carries the payer the host records for it.

account_primary_key(a) == a.balance.symbol.code

stats_primary_key(s) == s.supply.symbol.code

\* A lookup that opens the table under another scope and so finds nothing.
find_stats_other_scope(st, code) == {}

\* stats statstable( get_self(), code ); statstable.find( code )
find_stats(st, code) ==
    {s \in st : s.scope = code /\ stats_primary_key(s) = code}

\* A lookup that ignores the owner the accounts table is scoped by.
find_account_any_scope(ac, owner, code) ==
    {a \in ac : account_primary_key(a) = code}

\* A lookup that opens the accounts table under another scope and so finds
\* nothing.
find_account_other_scope(ac, owner, code) == {}

\* accounts acnts( get_self(), owner ); acnts.find( code )
find_account(ac, owner, code) ==
    {a \in ac : a.scope = owner /\ account_primary_key(a) = code}

\* asset::operator+= / operator-= : the symbols must be identical and the
\* result must stay within -max_amount .. max_amount.
asset_in_range(n) == (-max_amount <= n) /\ (n <= max_amount)

asset_can_add(a, b) ==
    a.symbol = b.symbol /\ asset_in_range(a.amount + b.amount)

\* A subtraction that compares symbol codes only, not precisions.
asset_can_sub_any_symbol(a, b) ==
    a.symbol.code = b.symbol.code /\ asset_in_range(a.amount - b.amount)

asset_can_sub(a, b) ==
    a.symbol = b.symbol /\ asset_in_range(a.amount - b.amount)

\* asset::is_valid
asset_is_valid(a) == asset_in_range(a.amount)

Result(err, st, ac) == [err |-> err, stats |-> st, accounts |-> ac]

----------------------------------------------------------------------------
\* The balance primitives (debit and credit).

\* sub_balance without its "overdrawn balance" check.
sub_balance_unchecked(ac, owner, value) ==
    LET rows == find_account(ac, owner, value.symbol.code)
    IN  IF rows = {}
        THEN [err |-> "NoBalanceRecord", accounts |-> ac]
        ELSE LET from == CHOOSE a \in rows : TRUE
             IN  IF ~asset_can_sub(from.balance, value)
                 THEN [err |-> "InvalidAmount", accounts |-> ac]
                 ELSE [err |-> "ok",
                       accounts |-> (ac \ {from}) \cup
                           {[from EXCEPT
                               !.balance.amount = @ - value.amount,
                               !.payer = owner]}]

\* sub_balance that erases the row when the debit empties it.
sub_balance_erase_empty(ac, owner, value) ==
    LET rows == find_account(ac, owner, value.symbol.code)
    IN  IF rows = {}
        THEN [err |-> "NoBalanceRecord", accounts |-> ac]
        ELSE LET from == CHOOSE a \in rows : TRUE
             IN  IF ~(from.balance.amount >= value.amount)
                 THEN [err |-> "Overdrawn", accounts |-> ac]
                 ELSE IF ~asset_can_sub(from.balance, value)
                 THEN [err |-> "InvalidAmount", accounts |-> ac]
                 ELSE IF from.balance.amount = value.amount
                 THEN [err |-> "ok", accounts |-> ac \ {from}]
                 ELSE [err |-> "ok",
                       accounts |-> (ac \ {from}) \cup
                           {[from EXCEPT
                               !.balance.amount = @ - value.amount,
                               !.payer = owner]}]

\* sub_balance that lets a debit of a missing row pass without effect.
sub_balance_skip_missing(ac, owner, value) ==
    LET rows == find_account(ac, owner, value.symbol.code)
    IN  IF rows = {}
        THEN [err |-> "ok", accounts |-> ac]
        ELSE LET from == CHOOSE a \in rows : TRUE
             IN  IF ~(from.balance.amount >= value.amount)
                 THEN [err |-> "Overdrawn", accounts |-> ac]
                 ELSE IF ~asset_can_sub(from.balance, value)
                 THEN [err |-> "InvalidAmount", accounts |-> ac]
                 ELSE [err |-> "ok",
                       accounts |-> (ac \ {from}) \cup
                           {[from EXCEPT
                               !.balance.amount = @ - value.amount,
                               !.payer = owner]}]

sub_balance(ac, owner, value) ==
    LET rows == find_account(ac, owner, value.symbol.code)
    IN  IF rows = {}
        THEN [err |-> "NoBalanceRecord", accounts |-> ac]
        ELSE LET from == CHOOSE a \in rows : TRUE
             IN  IF ~(from.balance.amount >= value.amount)
                 THEN [err |-> "Overdrawn", accounts |-> ac]
                 ELSE IF ~asset_can_sub(from.balance, value)
                 THEN [err |-> "InvalidAmount", accounts |-> ac]
                 ELSE [err |-> "ok",
                       accounts |-> (ac \ {from}) \cup
                           {[from EXCEPT
                               !.balance.amount = @ - value.amount,
                               !.payer = owner]}]

\* add_balance that assigns the value to an existing row instead of adding it.
add_balance_overwrite(ac, owner, value, ram_payer) ==
    LET rows == find_account(ac, owner, value.symbol.code)
    IN  IF rows = {}
        THEN [err |-> "ok",
              accounts |-> ac \cup
                  {[scope |-> owner, balance |-> value, payer |-> ram_payer]}]
        ELSE LET to == CHOOSE a \in rows : TRUE
             IN  IF ~asset_can_add(to.balance, value)
                 THEN [err |-> "InvalidAmount", accounts |-> ac]
                 ELSE [err |-> "ok",
                       accounts |-> (ac \ {to}) \cup
                           {[to EXCEPT !.balance.amount = value.amount]}]

\* add_balance that bills a new row to its owner instead of ram_payer.
add_balance_owner_pays(ac, owner, value, ram_payer) ==
    LET rows == find_account(ac, owner, value.symbol.code)
    IN  IF rows = {}
        THEN [err |-> "ok",
              accounts |-> ac \cup
                  {[scope |-> owner, balance |-> value, payer |-> owner]}]
        ELSE LET to == CHOOSE a \in rows : TRUE
             IN  IF ~asset_can_add(to.balance, value)
                 THEN [err |-> "InvalidAmount", accounts |-> ac]
                 ELSE [err |-> "ok",
                       accounts |-> (ac \ {to}) \cup
                           {[to EXCEPT !.balance.amount = @ + value.amount]}]

add_balance(ac, owner, value, ram_payer) ==
    LET rows == find_account(ac, owner, value.symbol.code)
    IN  IF rows = {}
        THEN [err |-> "ok",
              accounts |-> ac \cup
                  {[scope |-> owner, balance |-> value, payer |-> ram_payer]}]
        ELSE LET to == CHOOSE a \in rows : TRUE
             IN  IF ~asset_can_add(to.balance, value)
                 THEN [err |-> "InvalidAmount", accounts |-> ac]
                 ELSE [err |-> "ok",
                       accounts |-> (ac \ {to}) \cup
                           {[to EXCEPT !.balance.amount = @ + value.amount]}]

----------------------------------------------------------------------------
\* The six actions, as functions of the tables and the arguments.

\* create's documented preconditions on maximum_supply: within the system's
\* maximum and positive.  Every symbol of Symbols is well formed.
\* The precondition without "Maximum supply must be positive".
valid_maximum_supply_any_sign(maximum_supply) ==
    asset_is_valid(maximum_supply)

valid_maximum_supply(maximum_supply) ==
    asset_is_valid(maximum_supply) /\ maximum_supply.amount > 0

create(st, ac, issuer, maximum_supply) ==
    LET sym == maximum_supply.symbol
    IN  IF find_stats(st, sym.code) # {}
        THEN Result("AlreadyExists", st, ac)
        ELSE IF ~valid_maximum_supply(maximum_supply)
        THEN Result("InvalidSupply", st, ac)
        ELSE Result("ok",
                    st \cup {[scope |-> sym.code,
                              supply |-> asset(0, sym),
                              max_supply |-> maximum_supply,
                              issuer |-> issuer]},
                    ac)

issue(st, ac, to, quantity, memo) ==
    LET rows == find_stats(st, quantity.symbol.code)
    IN  IF rows = {}
        THEN Result("NoSuchToken", st, ac)
        ELSE LET s == CHOOSE r \in rows : TRUE
             IN  IF to # s.issuer
                 THEN Result("NotIssuer", st, ac)
                 ELSE IF ~(quantity.amount > 0)
                 THEN Result("InvalidAmount", st, ac)
                 ELSE IF quantity.symbol # s.supply.symbol
                 THEN Result("InvalidAmount", st, ac)
                 ELSE IF ~(quantity.amount + s.supply.amount <= s.max_supply.amount)
                 THEN Result("SupplyExceeded", st, ac)
                 ELSE IF memo > MaxMemoLen
                 THEN Result("MemoTooLong", st, ac)
                 ELSE LET st2 == (st \ {s}) \cup
                                     {[s EXCEPT !.supply.amount = @ + quantity.amount]}
                          credit == add_balance(ac, s.issuer, quantity, s.issuer)
                      IN  Result(credit.err, st2, credit.accounts)

burn(st, ac, quantity, memo) ==
    LET rows == find_stats(st, quantity.symbol.code)
    IN  IF rows = {}
        THEN Result("NoSuchToken", st, ac)
        ELSE LET s == CHOOSE r \in rows : TRUE
             IN  IF ~(quantity.amount > 0)
                 THEN Result("InvalidAmount", st, ac)
                 ELSE IF quantity.symbol # s.supply.symbol
                 THEN Result("InvalidAmount", st, ac)
                 ELSE IF ~(quantity.amount <= s.supply.amount)
                 THEN Result("Underflow", st, ac)
                 ELSE Result("ok",
                          (st \ {s}) \cup
                            {[s EXCEPT !.supply.amount = @ - quantity.amount]},
                          ac)

transfer(st, ac, from, to, quantity, memo) ==
    IF from = to
    THEN Result("SelfTransfer", st, ac)
    ELSE IF ~(quantity.amount > 0)
    THEN Result("InvalidAmount", st, ac)
    ELSE IF memo > MaxMemoLen
    THEN Result("MemoTooLong", st, ac)
    ELSE LET debit == sub_balance(ac, from, quantity)
         IN  IF debit.err # "ok"
             THEN Result(debit.err, st, ac)
             ELSE LET credit == add_balance(debit.accounts, to, quantity, from)
                  IN  Result(credit.err, st, credit.accounts)

open(st, ac, owner, symbol, ram_payer) ==
    LET rows == find_stats(st, symbol.code)
    IN  IF rows = {}
        THEN Result("NoSuchToken", st, ac)
        ELSE LET s == CHOOSE r \in rows : TRUE
             IN  IF s.supply.symbol # symbol
                 THEN Result("InvalidSymbol", st, ac)
                 ELSE IF find_account(ac, owner, symbol.code) = {}
                 THEN Result("ok", st,
                          ac \cup {[scope |-> owner,
                                    balance |-> asset(0, symbol),
                                    payer |-> ram_payer]})
                 ELSE Result("ok", st, ac)

close(st, ac, owner, symbol) ==
    LET rows == find_account(ac, owner, symbol.code)
    IN  IF rows = {}
        THEN Result("ok", st, ac)
        ELSE LET a == CHOOSE r \in rows : TRUE
             IN  IF a.balance.amount # 0
                 THEN Result("NonZeroBalance", st, ac)
                 ELSE Result("ok", st, ac \ {a})

----------------------------------------------------------------------------
\* The ledger as a state machine: one step per action call.  `last' is the
\* call just made and the outcome reported to the caller.

NoSymbol == [code |-> "", precision |-> 0]

\* For an accepted call `last' keeps the arguments; for a rejected one only
\* the action's name and the error.
Call(op, r, from, to, quantity, memo) ==
    IF r.err = "ok"
    THEN [op |-> op, err |-> r.err, from |-> from, to |-> to,
          quantity |-> quantity, memo |-> memo]
    ELSE [op |-> op, err |-> r.err, from |-> "", to |-> "",
          quantity |-> asset(0, NoSymbol), memo |-> 0]

\* A host that keeps the writes of an action that ended in a failed check().
Commit_keep_writes(op, r, from, to, quantity, memo) ==
    /\ stats' = r.stats
    /\ accounts' = r.accounts
    /\ last' = Call(op, r, from, to, quantity, memo)

\* The host applies an action's writes only when the action ends without a
\* failed check().
Commit(op, r, from, to, quantity, memo) ==
    /\ stats' = IF r.err = "ok" THEN r.stats ELSE stats
    /\ accounts' = IF r.err = "ok" THEN r.accounts ELSE accounts
    /\ last' = Call(op, r, from, to, quantity, memo)

Init ==
    /\ stats = {}
    /\ accounts = {}
    /\ last = [op |-> "none", err |-> "ok", from |-> "", to |-> "",
               quantity |-> asset(0, NoSymbol), memo |-> 0]

\* create( issuer, maximum_supply ): `to' records the issuer.
Create ==
    \E issuer \in Names, maximum_supply \in Quantities :
        Commit("create", create(stats, accounts, issuer, maximum_supply),
               "", issuer, maximum_supply, 0)

Issue ==
    \E to \in Names, quantity \in Quantities, memo \in MemoLens :
        Commit("issue", issue(stats, accounts, to, quantity, memo),
               "", to, quantity, memo)

Burn ==
    \E quantity \in Quantities, memo \in MemoLens :
        Commit("burn", burn(stats, accounts, quantity, memo),
               "", "", quantity, memo)

Transfer ==
    \E from \in Names, to \in Names, quantity \in Quantities, memo \in MemoLens :
        Commit("transfer", transfer(stats, accounts, from, to, quantity, memo),
               from, to, quantity, memo)

\* open( owner, symbol, ram_payer ): `to' records the owner, `from' the payer.
Open ==
    \E owner \in Names, symbol \in Symbols, ram_payer \in Names :
        Commit("open", open(stats, accounts, owner, symbol, ram_payer),
               ram_payer, owner, asset(0, symbol), 0)

\* close( owner, symbol ): `to' records the owner.
Close ==
    \E owner \in Names, symbol \in Symbols :
        Commit("close", close(stats, accounts, owner, symbol),
               "", owner, asset(0, symbol), 0)

Next == Create \/ Issue \/ Burn \/ Transfer \/ Open \/ Close

Spec == Init /\ [][Next]_vars

----------------------------------------------------------------------------
\* The same ledger with two symbol codes and four owners, driven by a small
\* set of calls: one whole unit of precision 0, tokens created by alice with a
\* maximum supply of one unit, accounts opened at the owner's own expense.
\* ABC is held by alice and bob only.  Burning is left to Spec: repeated issue
\* and burn would fill every balance up to max_amount.

PairNames == {"alice", "bob", "carol", "dave"}

PairCodes == {"TKN", "ABC"}

PairUnit(code) == asset(1, [code |-> code, precision |-> 0])

PairHolders(code) == IF code = "TKN" THEN PairNames ELSE {"alice", "bob"}

\* Only accepted calls are taken, since a rejected call leaves both tables as
\* they are, and `last' keeps the action's name only.
PairCommit(op, r) ==
    r.err = "ok" /\ Commit(op, r, "", "", asset(0, NoSymbol), 0)

PairCreate ==
    \E code \in PairCodes :
        PairCommit("create", create(stats, accounts, "alice", PairUnit(code)))

PairIssue ==
    \E code \in PairCodes :
        PairCommit("issue",
                   issue(stats, accounts, "alice", PairUnit(code), MaxMemoLen))

PairTransfer ==
    \E code \in PairCodes :
        \E from \in PairHolders(code), to \in PairHolders(code) :
            PairCommit("transfer",
                       transfer(stats, accounts, from, to, PairUnit(code), MaxMemoLen))

PairOpen ==
    \E code \in PairCodes :
        \E owner \in PairHolders(code) :
            PairCommit("open",
                       open(stats, accounts, owner, PairUnit(code).symbol, owner))

PairClose ==
    \E code \in PairCodes :
        \E owner \in PairHolders(code) :
            PairCommit("close",
                       close(stats, accounts, owner, PairUnit(code).symbol))

PairNext == PairCreate \/ PairIssue \/ PairTransfer \/ PairOpen \/ PairClose

SpecPair == Init /\ [][PairNext]_vars

----------------------------------------------------------------------------
\* Properties of the ledger.

RECURSIVE SumAmounts(_)
SumAmounts(rows) ==
    IF rows = {}
    THEN 0
    ELSE LET a == CHOOSE x \in rows : TRUE
         IN  a.balance.amount + SumAmounts(rows \ {a})

\* The total of all balances held under a symbol code.
BalanceTotal(ac, code) ==
    SumAmounts({a \in ac : account_primary_key(a) = code})

Accepted(op) == last.op = op /\ last.err = "ok"

AcceptedNext(op) == last'.op = op /\ last'.err = "ok"

\* C1: conservation - for every symbol that has a Supply Record, the sum of
\* the balances of all Account Records of that symbol equals the record's
\* supply.  burn lowers the supply and debits no account, so this fails.
C1_Conservation ==
    \A s \in stats :
        BalanceTotal(accounts, stats_primary_key(s)) = s.supply.amount

\* C2: no Account Record ever has a negative balance, and a transfer's debit
\* goes through only when the stored balance covers the amount.
C2_BalancesNonNegative ==
    \A a \in accounts : a.balance.amount >= 0

C2_DebitCovered ==
    AcceptedNext("transfer") =>
        \E a \in find_account(accounts, last'.from, last'.quantity.symbol.code) :
            a.balance.amount >= last'.quantity.amount

C2_NoNegativeBalance ==
    [] C2_BalancesNonNegative /\ [][C2_DebitCovered]_vars

\* C2's case: a transfer has just debited a sender's whole balance.
C2_Witness ==
    /\ Accepted("transfer")
    /\ \E a \in find_account(accounts, last.from, last.quantity.symbol.code) :
           a.balance.amount = 0

\* C3: every Supply Record has 0 <= supply <= max_supply, max_supply > 0 and
\* the same symbol in supply and max_supply.
C3_SupplyWithinCeiling ==
    \A s \in stats :
        /\ 0 <= s.supply.amount
        /\ s.supply.amount <= s.max_supply.amount
        /\ s.max_supply.amount > 0
        /\ s.supply.symbol = s.max_supply.symbol

\* C3's case: an issue has just brought a supply to its ceiling, in a ledger
\* that has seen a burn's effect or not.
C3_Witness ==
    /\ Accepted("issue")
    /\ \E s \in stats : s.supply.amount = s.max_supply.amount

\* The stored supply of a code (the set of its rows' supplies: empty when
\* there is no Supply Record).
SupplyOf(st, code) == {s.supply : s \in find_stats(st, code)}

\* C4: a create, transfer, open or close step, accepted or rejected, leaves
\* the total of the balances of every symbol unchanged, and a transfer, open
\* or close step leaves every supply unchanged: the balance total changes
\* only in an issue or burn step.
C4_StepPreservesValue ==
    \A code \in Codes :
        /\ last'.op \in {"create", "transfer", "open", "close"} =>
               BalanceTotal(accounts', code) = BalanceTotal(accounts, code)
        /\ last'.op \in {"transfer", "open", "close"} =>
               SupplyOf(stats', code) = SupplyOf(stats, code)
        /\ BalanceTotal(accounts', code) # BalanceTotal(accounts, code) =>
               last'.op \in {"issue", "burn"}

C4_ValueOnlyByMintBurn == [][C4_StepPreservesValue]_vars

\* C4's case: a transfer has moved units to an account that held some, while
\* a supply is recorded.
C4_Witness ==
    /\ Accepted("transfer")
    /\ \E a \in find_account(accounts, last.to, last.quantity.symbol.code) :
           a.balance.amount > last.quantity.amount
    /\ stats # {}

\* The balance an owner holds under a code (0 when there is no record).
BalanceOf(ac, owner, code) == SumAmounts(find_account(ac, owner, code))

\* The Account Records other than those of the two owners under the code.
OtherAccounts(ac, owners, code) ==
    {a \in ac : a.scope \notin owners \/ account_primary_key(a) # code}

LedgerUnchanged == stats' = stats /\ accounts' = accounts

\* C5: a transfer that fails changes nothing - the sender is not debited and
\* the receiver's record is neither credited nor created; a transfer is
\* accepted only when sender and receiver differ, the quantity is positive,
\* the memo fits and the sender's record covers the quantity; and any
\* transfer step that changes an account debits the sender and credits the
\* receiver by the same amount.
C5_TransferStep ==
    /\ (last'.op = "transfer" /\ last'.err # "ok") => LedgerUnchanged
    /\ AcceptedNext("transfer") =>
          /\ last'.from # last'.to
          /\ last'.quantity.amount > 0
          /\ last'.memo <= MaxMemoLen
          /\ \E a \in find_account(accounts, last'.from, last'.quantity.symbol.code) :
                 a.balance.amount >= last'.quantity.amount
    /\ (last'.op = "transfer" /\ accounts' # accounts) =>
          LET code == last'.quantity.symbol.code
              q    == last'.quantity.amount
          IN  /\ last'.err = "ok"
              /\ BalanceOf(accounts', last'.from, code)
                     = BalanceOf(accounts, last'.from, code) - q
              /\ BalanceOf(accounts', last'.to, code)
                     = BalanceOf(accounts, last'.to, code) + q

C5_TransferAtomicity == [][C5_TransferStep]_vars

\* C5's case: a transfer has just been rejected as overdrawn, in a ledger
\* where one owner holds a balance and another has no record.
C5_Witness ==
    /\ last.op = "transfer" /\ last.err = "Overdrawn"
    /\ \E a \in accounts : a.balance.amount > 0
    /\ \E n \in Names : \A a \in accounts : a.scope # n

\* C6: an accepted transfer leaves the sender's record with its old balance
\* minus the quantity, the receiver's with its old balance plus the quantity
\* (a record created with the quantity, paid by the sender, when it had none),
\* and every other Account Record and every Supply Record as it was.
C6_TransferStep ==
    AcceptedNext("transfer") =>
        LET f    == last'.from
            t    == last'.to
            q    == last'.quantity
            code == q.symbol.code
            old  == find_account(accounts, t, code)
        IN  /\ \E a \in find_account(accounts, f, code) :
                  /\ Cardinality(find_account(accounts', f, code)) = 1
                  /\ \A b \in find_account(accounts', f, code) :
                         b.balance = asset(a.balance.amount - q.amount, a.balance.symbol)
            /\ old = {} =>
                  find_account(accounts', t, code)
                      = {[scope |-> t, balance |-> q, payer |-> f]}
            /\ \A a \in old :
                  find_account(accounts', t, code)
                      = {[a EXCEPT !.balance.amount = @ + q.amount]}
            /\ OtherAccounts(accounts', {f, t}, code) = OtherAccounts(accounts, {f, t}, code)
            /\ stats' = stats

C6_TransferEffect == [][C6_TransferStep]_vars

\* C6's case: a transfer of part of the sender's balance has just created the
\* receiver's record.
C6_Witness ==
    /\ Accepted("transfer")
    /\ BalanceOf(accounts, last.from, last.quantity.symbol.code) > 0
    /\ find_account(accounts, last.to, last.quantity.symbol.code)
           = {[scope |-> last.to, balance |-> last.quantity, payer |-> last.from]}

\* What each action requires of the ledger and its arguments to be accepted.
Precondition(call, st, ac) ==
    LET q    == call.quantity
        rows == find_stats(st, q.symbol.code)
    IN  CASE call.op = "create" ->
                 /\ rows = {}
                 /\ q.amount > 0
                 /\ q.amount <= max_amount
          [] call.op = "issue" ->
                 /\ \E s \in rows :
                        /\ call.to = s.issuer
                        /\ q.symbol = s.supply.symbol
                        /\ q.amount + s.supply.amount <= s.max_supply.amount
                 /\ q.amount > 0
                 /\ call.memo <= MaxMemoLen
          [] call.op = "burn" ->
                 /\ \E s \in rows :
                        /\ q.symbol = s.supply.symbol
                        /\ q.amount <= s.supply.amount
                 /\ q.amount > 0
          [] call.op = "transfer" ->
                 /\ call.from # call.to
                 /\ q.amount > 0
                 /\ call.memo <= MaxMemoLen
                 /\ \E a \in find_account(ac, call.from, q.symbol.code) :
                        a.balance.amount >= q.amount
          [] call.op = "open" ->
                 \E s \in rows : s.supply.symbol = q.symbol
          [] call.op = "close" ->
                 \A a \in find_account(ac, call.to, q.symbol.code) :
                     a.balance.amount = 0
          [] OTHER -> FALSE

\* C7: a rejected create, issue, burn, transfer, open or close leaves every
\* Supply Record and every Account Record, payer included, as it was; a call
\* is accepted only when its preconditions held; and an issue step never
\* changes the supply without the balance or the balance without the supply.
C7_Step ==
    /\ last'.err # "ok" => LedgerUnchanged
    /\ last'.err = "ok" => Precondition(last', stats, accounts)
    /\ last'.op = "issue" => (stats' # stats <=> accounts' # accounts)

C7_AllOrNothing == [][C7_Step]_vars

\* C7's case: an issue has just been rejected for exceeding the ceiling while
\* part of the supply is issued.
C7_Witness ==
    /\ last.op = "issue" /\ last.err = "SupplyExceeded"
    /\ \E s \in stats : s.supply.amount > 0 /\ s.supply.amount < s.max_supply.amount

\* C8: an accepted issue raises the supply by the quantity and the issuer's
\* balance by the quantity (creating the record, paid by the issuer, when it
\* had none); max_supply, issuer and every other Account Record are as before.
C8_IssueStep ==
    AcceptedNext("issue") =>
        LET t    == last'.to
            q    == last'.quantity
            code == q.symbol.code
            old  == find_account(accounts, t, code)
        IN  /\ \E s \in find_stats(stats, code) :
                  /\ t = s.issuer
                  /\ stats' = (stats \ {s}) \cup
                         {[s EXCEPT !.supply.amount = @ + q.amount]}
            /\ old = {} =>
                  find_account(accounts', t, code)
                      = {[scope |-> t, balance |-> q, payer |-> t]}
            /\ \A a \in old :
                  find_account(accounts', t, code)
                      = {[a EXCEPT !.balance.amount = @ + q.amount]}
            /\ OtherAccounts(accounts', {t}, code) = OtherAccounts(accounts, {t}, code)

C8_IssueEffect == [][C8_IssueStep]_vars

\* C8's case: an issue has just credited an issuer who already held units,
\* while another owner has a record.
C8_Witness ==
    /\ Accepted("issue")
    /\ BalanceOf(accounts, last.to, last.quantity.symbol.code) > last.quantity.amount
    /\ \E a \in accounts : a.scope # last.to

\* C9: issue fails with NoSuchToken when the code has no Supply Record, with
\* NotIssuer when `to' is not the issuer, with InvalidAmount when the quantity
\* is not positive or its symbol differs, with SupplyExceeded exactly when
\* quantity + supply > max_supply; an accepted issue credits only the issuer,
\* and issuing exactly up to max_supply succeeds.
C9_IssueRejections ==
    \A to \in Names, q \in Quantities, memo \in MemoLens :
        LET r    == issue(stats, accounts, to, q, memo)
            rows == find_stats(stats, q.symbol.code)
        IN  /\ rows = {} => r.err = "NoSuchToken"
            /\ \A s \in rows :
                  /\ to # s.issuer => r.err = "NotIssuer"
                  /\ (to = s.issuer /\ (q.amount <= 0 \/ q.symbol # s.supply.symbol))
                         => r.err = "InvalidAmount"
                  /\ (to = s.issuer /\ q.amount > 0 /\ q.symbol = s.supply.symbol)
                         => (r.err = "SupplyExceeded"
                                <=> q.amount + s.supply.amount > s.max_supply.amount)
                  /\ r.err = "ok" =>
                         OtherAccounts(r.accounts, {s.issuer}, q.symbol.code)
                             = OtherAccounts(accounts, {s.issuer}, q.symbol.code)
                  /\ (/\ to = s.issuer /\ q.amount > 0 /\ q.symbol = s.supply.symbol
                      /\ memo <= MaxMemoLen
                      /\ q.amount + s.supply.amount = s.max_supply.amount)
                         => r.err = "ok"

\* C10: there is at most one Supply Record per symbol code; create is accepted
\* only when the code has none, and adds one with supply 0; a create for a
\* code that has one fails with AlreadyExists whatever its precision or
\* issuer; no Supply Record is ever removed or has its max_supply or issuer
\* changed.
C10_OnePerCode ==
    /\ \A code \in Codes : Cardinality({s \in stats : stats_primary_key(s) = code}) <= 1
    /\ \A s \in stats : s.scope = stats_primary_key(s)
    /\ \A issuer \in Names, m \in Quantities :
           (\E s \in stats : stats_primary_key(s) = m.symbol.code)
               => create(stats, accounts, issuer, m).err = "AlreadyExists"

C10_StatsStep ==
    /\ \A s \in stats :
           \E n \in stats' :
               /\ n.scope = s.scope
               /\ n.supply.symbol = s.supply.symbol
               /\ n.max_supply = s.max_supply
               /\ n.issuer = s.issuer
    /\ AcceptedNext("create") =>
           /\ \A s \in stats : stats_primary_key(s) # last'.quantity.symbol.code
           /\ stats' = stats \cup
                  {[scope |-> last'.quantity.symbol.code,
                    supply |-> asset(0, last'.quantity.symbol),
                    max_supply |-> last'.quantity,
                    issuer |-> last'.to]}
    /\ Cardinality(stats') # Cardinality(stats) => AcceptedNext("create")

C10_SupplyRecordUnique == [] C10_OnePerCode /\ [][C10_StatsStep]_vars

\* C10's case: a create has just been rejected because the code already has a
\* Supply Record, which has since had part of its supply issued.
C10_Witness ==
    /\ last.op = "create" /\ last.err = "AlreadyExists"
    /\ \E s \in stats : s.supply.amount > 0

\* The Account Records stored for an owner under a code.
RecordsOf(ac, owner, code) ==
    {a \in ac : a.scope = owner /\ a.balance.symbol.code = code}

\* C11: for a symbol that has a Supply Record open is accepted whether or not
\* the account exists; on an existing record it changes nothing (balance and
\* payer stay); a second open after an accepted one is accepted and changes
\* nothing, and leaves exactly one record, with balance 0 when it was absent.
C11_OpenTwice ==
    \A owner \in Names, symbol \in Symbols, p1 \in Names, p2 \in Names :
        LET r1     == open(stats, accounts, owner, symbol, p1)
            before == RecordsOf(accounts, owner, symbol.code)
        IN  /\ (\E s \in stats : s.supply.symbol = symbol) => r1.err = "ok"
            /\ r1.err = "ok" =>
                  LET r2 == open(r1.stats, r1.accounts, owner, symbol, p2)
                  IN  /\ before # {} => (r1.accounts = accounts /\ r1.stats = stats)
                      /\ before = {} =>
                             RecordsOf(r1.accounts, owner, symbol.code)
                                 = {[scope |-> owner, balance |-> asset(0, symbol),
                                     payer |-> p1]}
                      /\ r2.err = "ok"
                      /\ r2.accounts = r1.accounts
                      /\ r2.stats = r1.stats
                      /\ Cardinality(RecordsOf(r2.accounts, owner, symbol.code)) = 1

C11_OpenStep ==
    (AcceptedNext("open")
        /\ RecordsOf(accounts, last'.to, last'.quantity.symbol.code) # {})
    => LedgerUnchanged

C11_IdempotentOpen == [] C11_OpenTwice /\ [][C11_OpenStep]_vars

\* C11's case: an open has just been accepted for an owner who holds units.
C11_Witness ==
    /\ Accepted("open")
    /\ \E a \in RecordsOf(accounts, last.to, last.quantity.symbol.code) :
           a.balance.amount > 0

\* C12: close fails with NonZeroBalance exactly when the owner's record exists
\* with a balance other than 0, and then changes nothing; it removes a record
\* whose balance is 0; it is accepted and changes nothing when there is no
\* record; it never changes another Account Record or a Supply Record; and an
\* open followed by a close of a previously absent account restores the
\* ledger.
C12_CloseResult ==
    \A owner \in Names, symbol \in Symbols :
        LET r    == close(stats, accounts, owner, symbol)
            rows == RecordsOf(accounts, owner, symbol.code)
        IN  /\ r.err = "NonZeroBalance" <=> (\E a \in rows : a.balance.amount # 0)
            /\ r.err \in {"ok", "NonZeroBalance"}
            /\ r.err = "NonZeroBalance" => r.accounts = accounts
            /\ r.err = "ok" => r.accounts = accounts \ rows
            /\ r.stats = stats
            /\ \A payer \in Names :
                   LET o == open(stats, accounts, owner, symbol, payer)
                   IN  (o.err = "ok" /\ rows = {}) =>
                           LET c == close(o.stats, o.accounts, owner, symbol)
                           IN  c.err = "ok" /\ c.accounts = accounts /\ c.stats = stats

C12_CloseStep ==
    last'.op = "close" =>
        /\ stats' = stats
        /\ accounts' \subseteq accounts
        /\ AcceptedNext("close") =>
              /\ accounts \ accounts'
                     = RecordsOf(accounts, last'.to, last'.quantity.symbol.code)
              /\ \A a \in accounts \ accounts' : a.balance.amount = 0
        /\ last'.err # "ok" => (last'.err = "NonZeroBalance" /\ accounts' = accounts)

C12_CloseOutcome == [] C12_CloseResult /\ [][C12_CloseStep]_vars

\* C12's case: a close has just been rejected for a non-zero balance while
\* another owner has a record with balance 0.
C12_Witness ==
    /\ last.op = "close" /\ last.err = "NonZeroBalance"
    /\ \E a \in accounts : a.balance.amount = 0

\* C13: a record appears only in an accepted open of its owner, or an
\* accepted issue or transfer whose receiver is its owner; a record
\* disappears only in an accepted close of its owner, and only when its
\* balance is 0; a debit that empties an account leaves its record.
C13_LifecycleStep ==
    \A owner \in Names, code \in Codes :
        LET before == RecordsOf(accounts, owner, code)
            after  == RecordsOf(accounts', owner, code)
        IN  /\ (before = {} /\ after # {}) =>
                  /\ last'.err = "ok"
                  /\ last'.op \in {"open", "issue", "transfer"}
                  /\ last'.to = owner
                  /\ last'.quantity.symbol.code = code
            /\ (before # {} /\ after = {}) =>
                  /\ AcceptedNext("close")
                  /\ last'.to = owner
                  /\ last'.quantity.symbol.code = code
                  /\ \A a \in before : a.balance.amount = 0
            /\ (AcceptedNext("transfer") /\ last'.from = owner
                    /\ last'.quantity.symbol.code = code) => after # {}

C13_AccountLifecycle == [][C13_LifecycleStep]_vars

\* C13's case: a transfer has just emptied the sender's account, whose record
\* is still there with balance 0, and created the receiver's.
C13_Witness ==
    /\ Accepted("transfer")
    /\ \E a \in RecordsOf(accounts, last.from, last.quantity.symbol.code) :
           a.balance.amount = 0
    /\ RecordsOf(accounts, last.to, last.quantity.symbol.code)
           = {[scope |-> last.to, balance |-> last.quantity, payer |-> last.from]}

\* The Supply Records stored for a code.
SupplyRecordsOf(st, code) == {s \in st : s.supply.symbol.code = code}

\* C14: burn never changes an Account Record; an accepted burn lowers the
\* supply by the quantity and leaves max_supply and issuer; burn fails with
\* NoSuchToken when the code has no Supply Record, with InvalidAmount when the
\* quantity is not positive or its symbol differs, and otherwise with
\* Underflow exactly when the quantity exceeds the supply.
C14_BurnResult ==
    \A q \in Quantities, memo \in MemoLens :
        LET r    == burn(stats, accounts, q, memo)
            rows == SupplyRecordsOf(stats, q.symbol.code)
        IN  /\ r.accounts = accounts
            /\ r.err = "NoSuchToken" <=> rows = {}
            /\ r.err # "ok" => r.stats = stats
            /\ \A s \in rows :
                  /\ (q.amount <= 0 \/ q.symbol # s.supply.symbol)
                         => r.err = "InvalidAmount"
                  /\ (q.amount > 0 /\ q.symbol = s.supply.symbol)
                         => /\ r.err = "Underflow" <=> q.amount > s.supply.amount
                            /\ r.err \in {"Underflow", "ok"}
                  /\ r.err = "ok" =>
                         r.stats = (stats \ {s}) \cup
                             {[s EXCEPT !.supply.amount = @ - q.amount]}

C14_BurnStep ==
    last'.op = "burn" =>
        /\ accounts' = accounts
        /\ last'.err = "ok" =>
              \E s \in SupplyRecordsOf(stats, last'.quantity.symbol.code) :
                  /\ last'.quantity.amount <= s.supply.amount
                  /\ stats' = (stats \ {s}) \cup
                         {[s EXCEPT !.supply.amount = @ - last'.quantity.amount]}

C14_BurnSupplyOnly == [] C14_BurnResult /\ [][C14_BurnStep]_vars

\* C14's case: a burn has just emptied the supply while an owner still holds
\* units.
C14_Witness ==
    /\ Accepted("burn")
    /\ \E s \in stats : s.supply.amount = 0
    /\ \E a \in accounts : a.balance.amount > 0

\* C15 as claimed: debit fails with NoBalanceRecord when the owner has no
\* record under the amount's code, with Overdrawn when the balance is less
\* than the amount, and otherwise subtracts the amount from that one record.
\* (Over the positive amounts transfer passes on.)  A record whose balance
\* covers an amount of another precision is not debited, so this fails.
C15_DebitAsClaimed ==
    \A owner \in Names, amount \in Quantities :
        amount.amount > 0 =>
            LET r    == sub_balance(accounts, owner, amount)
                rows == RecordsOf(accounts, owner, amount.symbol.code)
            IN  /\ rows = {} => (r.err = "NoBalanceRecord" /\ r.accounts = accounts)
                /\ \A a \in rows :
                      /\ a.balance.amount < amount.amount
                             => (r.err = "Overdrawn" /\ r.accounts = accounts)
                      /\ a.balance.amount >= amount.amount
                             => /\ r.err = "ok"
                                /\ r.accounts \ accounts # {}
                                /\ \A b \in r.accounts \ accounts :
                                       /\ b.scope = owner
                                       /\ b.balance = asset(a.balance.amount - amount.amount,
                                                            a.balance.symbol)
                                /\ accounts \ r.accounts = {a}

\* C15, amended: as claimed, except that a covered debit goes through only
\* when the amount's symbol (code and precision) is the record's and the
\* result is within the asset range; otherwise it fails with InvalidAmount and
\* changes nothing.  Over every amount, positive or not.
C15_Debit ==
    \A owner \in Names, amount \in Quantities :
        LET r    == sub_balance(accounts, owner, amount)
            rows == RecordsOf(accounts, owner, amount.symbol.code)
        IN  /\ rows = {} => (r.err = "NoBalanceRecord" /\ r.accounts = accounts)
            /\ r.err # "ok" => r.accounts = accounts
            /\ \A a \in rows :
                  /\ a.balance.amount < amount.amount => r.err = "Overdrawn"
                  /\ (/\ a.balance.amount >= amount.amount
                      /\ a.balance.symbol = amount.symbol
                      /\ a.balance.amount - amount.amount <= max_amount)
                         => /\ r.err = "ok"
                            /\ \A b \in r.accounts \ accounts :
                                   /\ b.scope = owner
                                   /\ b.balance = asset(a.balance.amount - amount.amount,
                                                        a.balance.symbol)
                            /\ r.accounts \ accounts = {} => amount.amount = 0
                            /\ accounts \ r.accounts \subseteq {a}
                            /\ Cardinality(RecordsOf(r.accounts, owner, amount.symbol.code)) = 1
                  /\ (/\ a.balance.amount >= amount.amount
                      /\ (a.balance.symbol # amount.symbol
                             \/ a.balance.amount - amount.amount > max_amount))
                         => r.err = "InvalidAmount"

\* C15's case: a transfer has just debited part of a sender's balance and
\* credited a record the sender does not pay for.
C15_Witness ==
    /\ Accepted("transfer")
    /\ \E a \in RecordsOf(accounts, last.from, last.quantity.symbol.code) :
           a.balance.amount > 0
    /\ \E b \in RecordsOf(accounts, last.to, last.quantity.symbol.code) :
           b.payer # last.from

\* C16: credit on an absent record creates it with the amount as balance and
\* the given payer; on an existing record it adds the amount and leaves the
\* payer; it touches no other record and never fails as overdrawn or for a
\* missing record.  A record created in a transfer is paid by the sender, in
\* an issue by the issuer, in an open by the ram payer.
C16_CreditResult ==
    \A owner \in Names, payer \in Names, amount \in Quantities :
        LET r    == add_balance(accounts, owner, amount, payer)
            rows == RecordsOf(accounts, owner, amount.symbol.code)
        IN  /\ r.err \notin {"Overdrawn", "NoBalanceRecord"}
            /\ r.err # "ok" => r.accounts = accounts
            /\ rows = {} =>
                  /\ r.err = "ok"
                  /\ r.accounts = accounts \cup
                         {[scope |-> owner, balance |-> amount, payer |-> payer]}
            /\ \A a \in rows :
                  /\ (a.balance.symbol = amount.symbol
                         /\ asset_in_range(a.balance.amount + amount.amount))
                         => r.err = "ok"
                  /\ r.err = "ok" =>
                         r.accounts = (accounts \ {a}) \cup
                             {[a EXCEPT !.balance.amount = @ + amount.amount]}

C16_PayerStep ==
    \A owner \in Names, code \in Codes :
        LET before == RecordsOf(accounts, owner, code)
            after  == RecordsOf(accounts', owner, code)
        IN  /\ (before = {} /\ after # {}) =>
                  \A a \in after :
                      a.payer = IF last'.op = "issue" THEN last'.to ELSE last'.from
            /\ (last'.op \in {"issue", "transfer"} /\ last'.to = owner
                    /\ last'.quantity.symbol.code = code) =>
                  \A b \in before : \A a \in after : a.payer = b.payer

C16_CreditAndPayer == [] C16_CreditResult /\ [][C16_PayerStep]_vars

\* C16's case: an issue has just credited an issuer whose record another
\* account pays for.
C16_Witness ==
    /\ Accepted("issue")
    /\ \E a \in RecordsOf(accounts, last.to, last.quantity.symbol.code) :
           a.payer # last.to /\ a.balance.amount > 0

\* C17: every Account Record carries the symbol (code and precision) of the
\* Supply Record of its code; debit and credit never combine amounts of
\* different precision; an issue, burn, transfer or open whose symbol has the
\* code of a Supply Record but another precision is rejected.
C17_SymbolsAgree ==
    /\ \A a \in accounts :
           \A s \in SupplyRecordsOf(stats, a.balance.symbol.code) :
               /\ a.balance.symbol = s.supply.symbol
               /\ s.max_supply.symbol = s.supply.symbol
    /\ \A owner \in Names, payer \in Names, amount \in Quantities :
           \A a \in RecordsOf(accounts, owner, amount.symbol.code) :
               a.balance.symbol # amount.symbol =>
                   /\ sub_balance(accounts, owner, amount).err # "ok"
                   /\ add_balance(accounts, owner, amount, payer).err # "ok"
    /\ \A s \in stats, quantity \in Quantities :
           (quantity.symbol.code = s.supply.symbol.code
                /\ quantity.symbol # s.supply.symbol) =>
               /\ \A to \in Names, memo \in MemoLens :
                      /\ issue(stats, accounts, to, quantity, memo).err # "ok"
                      /\ burn(stats, accounts, quantity, memo).err # "ok"
                      /\ \A from \in Names :
                             transfer(stats, accounts, from, to, quantity, memo).err
                                 # "ok"
               /\ \A owner \in Names, payer \in Names :
                      open(stats, accounts, owner, quantity.symbol, payer).err # "ok"

\* C17 on steps: an accepted issue, burn, transfer or open carries the Supply
\* Record's symbol, and a rejected call changes nothing.
C17_SymbolStep ==
    /\ (last'.op \in {"issue", "burn", "transfer", "open"} /\ last'.err = "ok") =>
           /\ SupplyRecordsOf(stats, last'.quantity.symbol.code) # {}
           /\ \A s \in SupplyRecordsOf(stats, last'.quantity.symbol.code) :
                  last'.quantity.symbol = s.supply.symbol
    /\ last'.err # "ok" => LedgerUnchanged

C18_BoundedMagnitudes ==
    /\ \A a \in accounts : a.balance.amount <= max_amount
    /\ \A s \in stats :
           s.supply.amount <= max_amount /\ s.max_supply.amount <= max_amount
    /\ \A a \in accounts :
           \A s \in SupplyRecordsOf(stats, a.balance.symbol.code) :
               a.balance.amount <= s.max_supply.amount
    /\ \A to \in Names, quantity \in Quantities, memo \in MemoLens :
           /\ \A s \in SupplyRecordsOf(stats, quantity.symbol.code) :
                  (/\ quantity.amount > 0
                   /\ quantity.symbol = s.supply.symbol
                   /\ quantity.amount + s.supply.amount <= s.max_supply.amount)
                      => \A a \in RecordsOf(accounts, s.issuer, quantity.symbol.code) :
                             asset_in_range(a.balance.amount + quantity.amount)
           /\ \A from \in Names \ {to} :
                  sub_balance(accounts, from, quantity).err = "ok" /\ quantity.amount > 0
                      => \A a \in RecordsOf(accounts, to, quantity.symbol.code) :
                             asset_in_range(a.balance.amount + quantity.amount)

\* C19: every Account Record belongs to a code that has a Supply Record; open
\* for a code without one fails with NoSuchToken and creates nothing; no
\* transfer for such a code is accepted.
C19_AccountsHaveToken ==
    /\ \A a \in accounts : SupplyRecordsOf(stats, a.balance.symbol.code) # {}
    /\ \A symbol \in Symbols :
           SupplyRecordsOf(stats, symbol.code) = {} =>
               /\ \A owner \in Names, payer \in Names :
                      LET r == open(stats, accounts, owner, symbol, payer)
                      IN  r.err = "NoSuchToken" /\ r.accounts = accounts
               /\ \A from \in Names, to \in Names, unit \in Units, memo \in MemoLens :
                      LET r == transfer(stats, accounts, from, to,
                                        asset(unit, symbol), memo)
                      IN  r.err # "ok"

\* C19 on steps: a record appears only under a code that already has a Supply
\* Record, and Supply Records are never removed.
C19_TokenStep ==
    /\ \A a \in accounts' \ accounts :
           SupplyRecordsOf(stats, a.balance.symbol.code) # {}
    /\ \A s \in stats : SupplyRecordsOf(stats', s.supply.symbol.code) # {}

C19_NoAccountWithoutToken == [] C19_AccountsHaveToken /\ [][C19_TokenStep]_vars

\* C19's case: an open for a symbol that was never created has just been
\* rejected and no record exists.
C19_Witness ==
    /\ last.op = "open" /\ last.err = "NoSuchToken"
    /\ stats = {} /\ accounts = {}

\* The calls compared pairwise: each action with one unit of either code,
\* among the holders of the code.  `to' is the issuer of a create, the owner
\* of an open or close; `from' is the ram payer of an open.
PairCalls ==
    UNION {
        {[op |-> "create", from |-> "", to |-> "alice", quantity |-> PairUnit(code)],
         [op |-> "issue", from |-> "", to |-> "alice", quantity |-> PairUnit(code)],
         [op |-> "burn", from |-> "", to |-> "", quantity |-> PairUnit(code)]}
        \cup {[op |-> "transfer", from |-> f, to |-> t, quantity |-> PairUnit(code)] :
                  f \in PairHolders(code), t \in PairHolders(code)}
        \cup {[op |-> "open", from |-> o, to |-> o, quantity |-> PairUnit(code)] :
                  o \in PairHolders(code)}
        \cup {[op |-> "close", from |-> "", to |-> o, quantity |-> PairUnit(code)] :
                  o \in PairHolders(code)}
        : code \in PairCodes }

\* The (owner, code) Account keys and the Supply Records a call reads or
\* writes.
AccountKeys(c) ==
    CASE c.op = "transfer" -> {<<c.from, c.quantity.symbol.code>>,
                               <<c.to, c.quantity.symbol.code>>}
      [] c.op \in {"issue", "open", "close"} -> {<<c.to, c.quantity.symbol.code>>}
      [] OTHER -> {}

SupplyCodes(c) ==
    IF c.op \in {"create", "issue", "burn", "open"}
    THEN {c.quantity.symbol.code}
    ELSE {}

Disjoint(c1, c2) ==
    /\ AccountKeys(c1) \cap AccountKeys(c2) = {}
    /\ SupplyCodes(c1) \cap SupplyCodes(c2) = {}

\* The outcome of call c on tables st and ac, and the tables the host keeps.
After(c, st, ac) ==
    LET r == CASE c.op = "create" -> create(st, ac, c.to, c.quantity)
               [] c.op = "issue" -> issue(st, ac, c.to, c.quantity, MaxMemoLen)
               [] c.op = "burn" -> burn(st, ac, c.quantity, MaxMemoLen)
               [] c.op = "transfer" ->
                      transfer(st, ac, c.from, c.to, c.quantity, MaxMemoLen)
               [] c.op = "open" -> open(st, ac, c.to, c.quantity.symbol, c.from)
               [] OTHER -> close(st, ac, c.to, c.quantity.symbol)
    IN  IF r.err = "ok" THEN r ELSE Result(r.err, st, ac)

====
